---- MODULE Spec2Model ----
(***************************************************************************)
(* Model of src/app3.py (Advanced Bond Analytics Platform, a Streamlit     *)
(* script).  The script is re-run top to bottom on every user interaction; *)
(* a "handler" is therefore one script run of the selected page with the   *)
(* widget values of that run.                                              *)
(*                                                                         *)
(* Numbers.  The code computes in IEEE doubles (numpy float64).  The model *)
(* computes in exact extended rationals <<n, d>> with d >= 0, reduced:     *)
(*   d > 0          the rational n/d                                       *)
(*   <<1,0>>  +inf   <<-1,0>>  -inf   <<0,0>>  NaN                         *)
(* with numpy's rules for the non-finite values (x/0 = +-inf, 0/0 = NaN,   *)
(* 0*inf = NaN, inf-inf = NaN; numpy warns and does not raise).  Rounding  *)
(* of doubles is not modelled.                                             *)
(***************************************************************************)
EXTENDS Integers, Sequences, FiniteSets, TLC

(***************************************************************************)
(* Bounds of the model.                                                    *)
(***************************************************************************)
\* largest number of coupon periods of a bond that is priced
MaxPeriods == 3
\* largest time to maturity entered, in quarters of a year
MaxYearQuarters == 12

(***************************************************************************)
(* Extended rational arithmetic (numpy float64 without rounding).          *)
(***************************************************************************)
Abs(x) == IF x < 0 THEN -x ELSE x

Sgn(x) == IF x < 0 THEN -1 ELSE IF x > 0 THEN 1 ELSE 0

RECURSIVE Gcd(_, _)
Gcd(a, b) == IF b = 0 THEN a ELSE Gcd(b, a % b)

\* the reduced extended rational n/d
Rat(n, d) ==
    IF d = 0 THEN <<Sgn(n), 0>>
    ELSE LET g == Gcd(Abs(n), Abs(d))
         IN  <<(Sgn(d) * n) \div g, Abs(d) \div g>>

FromInt(k) == <<k, 1>>
Zero == <<0, 1>>
One == <<1, 1>>
NaN == <<0, 0>>
PosInf == <<1, 0>>
NegInf == <<-1, 0>>

IsNaN(x) == x = NaN
IsInf(x) == x[2] = 0 /\ x[1] # 0
IsFinite(x) == x[2] > 0

Neg(x) == <<-x[1], x[2]>>

Mul(x, y) ==
    IF IsNaN(x) \/ IsNaN(y) THEN NaN
    ELSE LET g1 == IF x[2] = 0 \/ y[1] = 0 THEN 1 ELSE Gcd(Abs(y[1]), x[2])
             g2 == IF y[2] = 0 \/ x[1] = 0 THEN 1 ELSE Gcd(Abs(x[1]), y[2])
         IN  Rat((x[1] \div g2) * (y[1] \div g1), (x[2] \div g1) * (y[2] \div g2))

Add(x, y) ==
    IF IsNaN(x) \/ IsNaN(y) THEN NaN
    ELSE IF IsInf(x) /\ IsInf(y) THEN (IF x = y THEN x ELSE NaN)
    ELSE IF IsInf(x) THEN x
    ELSE IF IsInf(y) THEN y
    ELSE LET g == Gcd(x[2], y[2])
             l == (x[2] \div g) * y[2]
         IN  Rat(x[1] * (l \div x[2]) + y[1] * (l \div y[2]), l)

Sub(x, y) == Add(x, Neg(y))

\* 1/x: 1/0 = +inf, 1/inf = 0
Inv(x) ==
    IF IsNaN(x) THEN NaN
    ELSE IF x[2] = 0 THEN Zero
    ELSE IF x[1] = 0 THEN PosInf
    ELSE <<Sgn(x[1]) * x[2], Abs(x[1])>>

Div(x, y) == Mul(x, Inv(y))

RECURSIVE Pow(_, _)
Pow(x, k) == IF k = 0 THEN One ELSE Mul(x, Pow(x, k - 1))

\* comparisons of doubles: every comparison with NaN is false
Lt(x, y) ==
    /\ ~IsNaN(x) /\ ~IsNaN(y)
    /\ x # y
    /\ IF IsInf(x) THEN x = NegInf
       ELSE IF IsInf(y) THEN y = PosInf
       ELSE IF Sgn(x[1]) # Sgn(y[1]) THEN Sgn(x[1]) < Sgn(y[1])
       ELSE LET g == Gcd(x[2], y[2])
            IN  x[1] * (y[2] \div g) < y[1] * (x[2] \div g)

Le(x, y) == ~IsNaN(x) /\ ~IsNaN(y) /\ (x = y \/ Lt(x, y))

RECURSIVE SumSeq(_)
SumSeq(s) == IF s = <<>> THEN Zero ELSE Add(Head(s), SumSeq(Tail(s)))

\* Python's int(x) of a finite double: truncation toward zero
PyInt(x) == IF x[1] >= 0 THEN x[1] \div x[2] ELSE -((-x[1]) \div x[2])

(***************************************************************************)
(* numpy indexing on a one-dimensional array a (a TLA+ sequence holds      *)
(* a[0..P-1] at 1..P).                                                     *)
(***************************************************************************)
\* the bound k of a slice a[:k] or a[k:] as a number of leading elements
SliceBound(k, P) ==
    LET j == IF k < 0 THEN k + P ELSE k
    IN  IF j < 0 THEN 0 ELSE IF j > P THEN P ELSE j

\* a[:k] = v
SetUpTo(a, k, v) ==
    [i \in 1..Len(a) |-> IF i <= SliceBound(k, Len(a)) THEN v ELSE a[i]]

\* a[k:] = v
SetFrom(a, k, v) ==
    [i \in 1..Len(a) |-> IF i > SliceBound(k, Len(a)) THEN v ELSE a[i]]

\* a[k] is a valid index expression (otherwise IndexError)
IndexOk(a, k) == -Len(a) <= k /\ k < Len(a)

\* a[k] = v, for IndexOk(a, k)
SetAt(a, k, v) ==
    LET j == IF k < 0 THEN k + Len(a) ELSE k
    IN  [i \in 1..Len(a) |-> IF i = j + 1 THEN v ELSE a[i]]

\* np.zeros(P)
np_zeros(P) == [i \in 1..P |-> Zero]

(***************************************************************************)
(* calculate_bond_metrics (src/app3.py:83-165).                            *)
(***************************************************************************)
BondTypes ==
    {"Vanilla Fixed Rate", "Callable Bond", "Putable Bond", "Step-Up Coupon",
     "Step-Down Coupon", "Fixed-to-Floating", "Zero Coupon", "Inflation-Linked"}

freq_map ==
    [f \in {"Annual", "Semi-Annual", "Quarterly", "Monthly"} |->
        CASE f = "Annual" -> 1
          [] f = "Semi-Annual" -> 2
          [] f = "Quarterly" -> 4
          [] f = "Monthly" -> 12]

\* a variant of periods_of that rounds to the nearest integer instead of truncating
periods_rounded(years_to_maturity, n) ==
    PyInt(Add(Mul(years_to_maturity, FromInt(n)), Rat(1, 2)))

\* periods = int(years_to_maturity * n)
periods_of(years_to_maturity, n) == PyInt(Mul(years_to_maturity, FromInt(n)))

\* an exception leaving the function, and a normally built array
Raise(e) == [raised |-> e, cash_flows |-> <<>>]
Built(cf) == [raised |-> "none", cash_flows |-> cf]

\* a variant of vanilla_cash_flows whose final payment is the principal without
\* the last coupon
vanilla_without_last_coupon(periods, face_value, periodic_coupon) ==
    LET zeros == np_zeros(periods)
        c1 == SetUpTo(zeros, -1, Mul(face_value, periodic_coupon))
    IN  IF ~IndexOk(c1, -1) THEN Raise("IndexError")
        ELSE Built(SetAt(c1, -1, face_value))

\* lines 115-119 (and 135-137): the vanilla branch on the zero array of P entries
vanilla_cash_flows(periods, face_value, periodic_coupon) ==
    LET zeros == np_zeros(periods)
        c1 == SetUpTo(zeros, -1, Mul(face_value, periodic_coupon))
    IN  IF ~IndexOk(c1, -1) THEN Raise("IndexError")
        ELSE Built(SetAt(c1, -1, Mul(face_value, Add(One, periodic_coupon))))

\* a variant of zero_coupon_cash_flows that pays the face value in the first period
zero_coupon_pays_first(periods, face_value) ==
    LET zeros == np_zeros(periods)
    IN  IF ~IndexOk(zeros, 0) THEN Raise("IndexError")
        ELSE Built(SetAt(zeros, 0, face_value))

\* lines 121-123
zero_coupon_cash_flows(periods, face_value) ==
    LET zeros == np_zeros(periods)
    IN  IF ~IndexOk(zeros, -1) THEN Raise("IndexError")
        ELSE Built(SetAt(zeros, -1, face_value))

\* a variant of callable_cash_flows that keeps paying coupons after the call:
\* the vanilla array with the call price written over the call period
callable_not_truncated(periods, face_value, periodic_coupon, n, kwargs, today_year) ==
    LET call_period == (kwargs.call_date - today_year) * n
        v == vanilla_cash_flows(periods, face_value, periodic_coupon)
    IN  IF v.raised # "none" \/ call_period >= periods \/ ~IndexOk(v.cash_flows, call_period)
        THEN v
        ELSE Built(SetAt(v.cash_flows, call_period,
                         Mul(Div(FromInt(kwargs.call_price), FromInt(100)), face_value)))

\* lines 125-137; today_year is datetime.today().year
callable_cash_flows(periods, face_value, periodic_coupon, n, kwargs, today_year) ==
    IF "call_date" \notin kwargs.keys THEN Raise("KeyError")
    ELSE
    LET call_period == (kwargs.call_date - today_year) * n
        zeros == np_zeros(periods)
    IN  IF call_period < periods
        THEN LET c1 == SetUpTo(zeros, call_period, Mul(face_value, periodic_coupon))
             IN  IF "call_price" \notin kwargs.keys THEN Raise("KeyError")
                 ELSE IF ~IndexOk(c1, call_period) THEN Raise("IndexError")
                 ELSE LET c2 == SetAt(c1, call_period,
                                      Mul(Div(FromInt(kwargs.call_price), FromInt(100)),
                                          face_value))
                      IN  Built(SetFrom(c2, call_period + 1, Zero))
        ELSE vanilla_cash_flows(periods, face_value, periodic_coupon)

\* lines 112-140: the array after the bond-type branches
build_cash_flows(periods, face_value, periodic_coupon, n, bond_type, kwargs, today_year) ==
    IF periods < 0 THEN Raise("ValueError")
    ELSE IF bond_type = "Vanilla Fixed Rate"
        THEN vanilla_cash_flows(periods, face_value, periodic_coupon)
    ELSE IF bond_type = "Zero Coupon"
        THEN zero_coupon_cash_flows(periods, face_value)
    ELSE IF bond_type = "Callable Bond"
        THEN callable_cash_flows(periods, face_value, periodic_coupon, n, kwargs, today_year)
    ELSE Built(np_zeros(periods))

\* a variant of bond_price that leaves the final period out of the sum
bond_price_without_last(cash_flows, discount_factors) ==
    SumSeq([i \in 1..(Len(cash_flows) - 1) |-> Mul(cash_flows[i], discount_factors[i])])

\* line 144: price = np.sum(cash_flows * discount_factors)
bond_price(cash_flows, discount_factors) ==
    SumSeq([i \in 1..Len(cash_flows) |-> Mul(cash_flows[i], discount_factors[i])])

\* a variant of modified_duration that multiplies by 1 + periodic_ytm
modified_duration_multiplied(mac_duration, base) == Mul(mac_duration, base)

\* line 152: mod_duration = mac_duration / (1 + periodic_ytm); base is 1 + periodic_ytm
modified_duration(mac_duration, base) == Div(mac_duration, base)

\* lines 143-165: discounting of a built array; all of it numpy arithmetic that
\* warns on a division by zero and returns inf or NaN
price_cash_flows(cash_flows, periodic_ytm, n, ytm) ==
    LET periods == Len(cash_flows)
        base == Add(One, periodic_ytm)
        discount_factors == [i \in 1..periods |-> Inv(Pow(base, i))]
        pv_cash_flows == [i \in 1..periods |-> Mul(cash_flows[i], discount_factors[i])]
        price == bond_price(cash_flows, discount_factors)
        times == [i \in 1..periods |-> Div(FromInt(i), FromInt(n))]
        mac_duration ==
            Div(SumSeq([i \in 1..periods |-> Mul(times[i], pv_cash_flows[i])]), price)
        mod_duration == modified_duration(mac_duration, base)
        convexity ==
            Div(SumSeq([i \in 1..periods |->
                    Div(Mul(Mul(times[i], Add(times[i], Div(One, FromInt(n)))),
                            pv_cash_flows[i]),
                        Pow(base, 2))]),
                price)
    IN  [raised |-> "none",
         Price |-> price,
         MacaulayDuration |-> mac_duration,
         ModifiedDuration |-> mod_duration,
         Convexity |-> convexity,
         YieldToMaturity |-> ytm,
         CashFlows |-> cash_flows,
         DiscountFactors |-> discount_factors]

\* the whole function; percentages are numbers, years_to_maturity a rational
calculate_bond_metrics(face_value, coupon_rate, ytm, years_to_maturity, coupon_freq, bond_type, kwargs, today_year) ==
    LET coupon_dec == Div(FromInt(coupon_rate), FromInt(100))
        ytm_dec == Div(FromInt(ytm), FromInt(100))
        n == freq_map[coupon_freq]
        periods == periods_of(years_to_maturity, n)
        periodic_coupon == Div(coupon_dec, FromInt(n))
        periodic_ytm == Div(ytm_dec, FromInt(n))
        built == build_cash_flows(periods, FromInt(face_value), periodic_coupon, n,
                                  bond_type, kwargs, today_year)
    IN  IF built.raised # "none" THEN [raised |-> built.raised]
        ELSE price_cash_flows(built.cash_flows, periodic_ytm, n, ytm_dec)

(***************************************************************************)
(* Inputs.  The values the pages can hand to calculate_bond_metrics: the   *)
(* Bond Pricing page (every bond type and frequency, yield >= 0, maturity  *)
(* from the slider or from two free dates, so also zero or negative), and  *)
(* the Portfolio page (vanilla, semi-annual; a CSV upload carries any      *)
(* number).  Maturities are sampled on a grid of quarter years.            *)
(***************************************************************************)
FaceValues == {0, 100}
CouponRates == {0, 10}
PageYields == {0, 100}
CsvYields == {-400, -200, -100, 0, 100}
Maturities == {Rat(q, 4) : q \in (-5)..MaxYearQuarters}
CallPrices == {0, 102}
TodayYears == {0, 1}
CallDateYears == (-1)..2

NoKwargs == [keys |-> {}, call_date |-> 0, call_price |-> 0]
PutKwargs == [keys |-> {"put_date", "put_price"}, call_date |-> 0, call_price |-> 0]
CallKwargs == [keys : {{"call_date", "call_price"}},
               call_date : CallDateYears, call_price : CallPrices]

\* lines 355-361: the keyword arguments the Bond Pricing page passes
KwargsOf(bond_type) ==
    IF bond_type = "Callable Bond" THEN CallKwargs
    ELSE IF bond_type = "Putable Bond" THEN {PutKwargs}
    ELSE {NoKwargs}

WithinBounds(a) == periods_of(a.years_to_maturity, freq_map[a.coupon_freq]) <= MaxPeriods

\* lines 364-372
PricingPageArgs ==
    {a \in UNION {[face_value : FaceValues, coupon_rate : CouponRates, ytm : PageYields,
                   years_to_maturity : Maturities, coupon_freq : DOMAIN freq_map,
                   bond_type : {bt}, kwargs : KwargsOf(bt)] : bt \in BondTypes} :
        WithinBounds(a)}

\* lines 574-581
PortfolioArgs ==
    {a \in [face_value : FaceValues, coupon_rate : CouponRates, ytm : CsvYields,
            years_to_maturity : Maturities, coupon_freq : {"Semi-Annual"},
            bond_type : {"Vanilla Fixed Rate"}, kwargs : {NoKwargs}] :
        WithinBounds(a)}

\* lines 950-998 and 1054-1061: what the Risk Metrics page passes (one bond type,
\* three frequencies, maturity at least 0.1 years).  The maturities entered with
\* a frequency are those of bonds of up to three coupon periods: the exact
\* fractions of the stress section for longer bonds do not fit 32-bit integers.
RiskMaturities ==
    [coupon_freq \in {"Annual", "Semi-Annual", "Quarterly"} |->
        CASE coupon_freq = "Annual" -> {Rat(1, 4), Rat(1, 1), Rat(2, 1)}
          [] coupon_freq = "Semi-Annual" -> {Rat(1, 4), Rat(1, 1)}
          [] coupon_freq = "Quarterly" -> {Rat(1, 4)}]

RiskPageArgs ==
    {a \in [face_value : FaceValues, coupon_rate : CouponRates, ytm : PageYields,
            years_to_maturity : UNION {RiskMaturities[f] : f \in DOMAIN RiskMaturities},
            coupon_freq : DOMAIN RiskMaturities,
            bond_type : {"Vanilla Fixed Rate"}, kwargs : {NoKwargs}] :
        a.years_to_maturity \in RiskMaturities[a.coupon_freq]}

Metrics(a, today_year) ==
    calculate_bond_metrics(a.face_value, a.coupon_rate, a.ytm, a.years_to_maturity,
                           a.coupon_freq, a.bond_type, a.kwargs, today_year)

(***************************************************************************)
(* Risk Metrics page: the stress-testing section (lines 1146-1203).        *)
(***************************************************************************)
Scenarios == {"2020 COVID Crisis", "2008 Lehman Shock", "1994 Bond Massacre", "Custom Shock"}

\* lines 1175-1179, in basis points
scenario_shocks ==
    [sc \in Scenarios \ {"Custom Shock"} |->
        CASE sc = "2020 COVID Crisis" -> 75
          [] sc = "2008 Lehman Shock" -> 125
          [] sc = "1994 Bond Massacre" -> 200]

\* lines 1166-1173: values of the custom shock input (-500..500 in steps of 25)
CustomShocks == {-500, 100, 500}
DefaultCustomShock == 100

\* lines 1185-1188
scenario_delta(dd, dc, shock_bps) ==
    LET shock_size == Div(FromInt(shock_bps), FromInt(10000))
    IN  Add(Mul(Neg(dd), shock_size),
            Mul(Mul(Rat(1, 2), dc), Pow(shock_size, 2)))

\* lines 1163-1195: what the section shows for the stored snapshot
StressSection(dd, dc, p, current_scenario, shock_input) ==
    LET shock == IF current_scenario = "Custom Shock" THEN shock_input
                 ELSE scenario_shocks[current_scenario]
    IN  IF dd = Zero
        THEN [kind |-> "warning"]
        ELSE LET delta == scenario_delta(dd, dc, shock)
             IN  [kind |-> "impact",
                  scenario |-> current_scenario,
                  delta |-> delta,
                  pct |-> Mul(Div(delta, p), FromInt(100))]

\* the script run stopped on an exception before reaching the section
NotRendered == [kind |-> "not rendered"]

(***************************************************************************)
(* Risk Metrics page: the block of the "Calculate Risk Metrics" button     *)
(* (lines 1053-1079).  A value that depends on np.sqrt(horizon_days) is    *)
(* kept exact as rat + root * sqrt(radicand), the radicand square-free.    *)
(***************************************************************************)
DefaultYieldVol == 5
DefaultConfidenceLevel == 99
DefaultHorizonDays == 10

\* lines 1004-1011: values of "Yield Volatility (bps/day)" (0.1 to 100)
YieldVols == {FromInt(DefaultYieldVol), FromInt(10), FromInt(100)}
\* lines 1037-1042: the options of the selectbox
ConfidenceLevels == {FromInt(90), FromInt(95), FromInt(99), Rat(995, 10), Rat(999, 10)}
\* lines 1045-1051: values of "Horizon (days)" (1 to 30)
HorizonDays == {1, 4, DefaultHorizonDays}

\* np.sqrt of a positive integer: root * sqrt(radicand)
np_sqrt(x) ==
    LET s == CHOOSE s \in 1..x : /\ x % (s * s) = 0
                                 /\ \A t \in (s + 1)..x : x % (t * t) # 0
    IN  [rat |-> Zero, root |-> FromInt(s), radicand |-> x \div (s * s)]

\* line 1075: the dictionary the z-score is looked up in
z_scores ==
    (FromInt(90) :> Rat(1282, 1000)) @@ (FromInt(95) :> Rat(1645, 1000)) @@
    (FromInt(99) :> Rat(2326, 1000)) @@ (Rat(995, 10) :> Rat(2576, 1000)) @@
    (Rat(999, 10) :> Rat(3090, 1000))

price_volatility_in_percent(dollar_duration_, yield_vol_) ==
    Div(Mul(dollar_duration_, yield_vol_), FromInt(100))

\* line 1076
price_volatility(dollar_duration_, yield_vol_) ==
    Div(Mul(dollar_duration_, yield_vol_), FromInt(10000))

risk_snapshot_duration_twice(bond_metrics) ==
    [dollar_duration |-> Mul(bond_metrics.Price, bond_metrics.ModifiedDuration),
     dollar_convexity |-> Mul(bond_metrics.Price, bond_metrics.ModifiedDuration),
     price |-> bond_metrics.Price]

\* lines 1068-1070: what the block stores in st.session_state
risk_snapshot(bond_metrics) ==
    [dollar_duration |-> Mul(bond_metrics.Price, bond_metrics.ModifiedDuration),
     dollar_convexity |-> Mul(bond_metrics.Price, bond_metrics.Convexity),
     price |-> bond_metrics.Price]

\* lines 1067 and 1072-1077, computed from the snapshot just stored
risk_measures_of(snapshot, yield_vol_, confidence_level_, horizon_days_) ==
    LET sqrt_h == np_sqrt(horizon_days_)
        \* rate_shock = rate_shock_root * sqrt(radicand)
        rate_shock_root == Div(Mul(yield_vol_, sqrt_h.root), FromInt(10000))
        rate_shock_squared == Mul(Pow(rate_shock_root, 2), FromInt(sqrt_h.radicand))
        delta_price_linear == Mul(Neg(snapshot.dollar_duration), rate_shock_root)
        z_score == z_scores[confidence_level_]
        price_volatility_ == price_volatility(snapshot.dollar_duration, yield_vol_)
    IN  [kind |-> "shown",
         rate_shock |-> [rat |-> Zero, root |-> rate_shock_root,
                         radicand |-> sqrt_h.radicand],
         delta_price_convex |->
             [rat |-> Mul(Mul(Rat(1, 2), snapshot.dollar_convexity), rate_shock_squared),
              root |-> delta_price_linear, radicand |-> sqrt_h.radicand],
         z_score |-> z_score,
         price_volatility |-> price_volatility_,
         var |-> [rat |-> Zero, root |-> Mul(Mul(z_score, price_volatility_), sqrt_h.root),
                  radicand |-> sqrt_h.radicand]]

(***************************************************************************)
(* Portfolio Analysis page (lines 450-678): the bonds entered by hand and  *)
(* the block of the "Analyze Portfolio" button.                            *)
(***************************************************************************)
MaxHoldings == 2
DefaultPortfolioShift == 100

\* lines 548-555: dictionaries the page builds from the widgets of one bond
PortfolioHoldings ==
    [face_value : {100}, coupon_rate : {10}, ytm : {0, 100},
     maturity : {One}, weight : {Rat(1, 2), One}]

\* lines 631-639: values of the slider (-500 to 500 in steps of 25)
PortfolioShifts == {-500, DefaultPortfolioShift, 500}

price_change_duration_only(ModifiedDuration, Price, Convexity, shift_size_) ==
    Mul(Mul(Neg(ModifiedDuration), Div(FromInt(shift_size_), FromInt(10000))), Price)

\* lines 645-648, for one row of portfolio_df
price_change(ModifiedDuration, Price, Convexity, shift_size_) ==
    LET shift == Div(FromInt(shift_size_), FromInt(10000))
    IN  Add(Mul(Mul(Neg(ModifiedDuration), shift), Price),
            Mul(Mul(Mul(Rat(1, 2), Convexity), Pow(shift, 2)), Price))

\* lines 573-650: the block of the button for a non-empty list of bonds
analyze_portfolio(bonds, shift_size_) ==
    LET metrics == [i \in DOMAIN bonds |->
                       calculate_bond_metrics(bonds[i].face_value, bonds[i].coupon_rate,
                                              bonds[i].ytm, bonds[i].maturity, "Semi-Annual",
                                              "Vanilla Fixed Rate", NoKwargs, 0)]
    IN  IF \E i \in DOMAIN bonds : metrics[i].raised # "none"
        THEN [kind |-> "raised"]
        ELSE LET changes == [i \in DOMAIN bonds |->
                                price_change(metrics[i].ModifiedDuration, metrics[i].Price,
                                             metrics[i].Convexity, shift_size_)]
             IN  [kind |-> "shown",
                  portfolio_df |-> metrics,
                  total_value |-> SumSeq([i \in DOMAIN bonds |->
                                             Mul(bonds[i].weight, metrics[i].Price)]),
                  shift_size |-> shift_size_,
                  price_change |-> changes,
                  total_change |-> SumSeq([i \in DOMAIN bonds |->
                                              Mul(bonds[i].weight, changes[i])])]

(***************************************************************************)
(* Yield Curve page (lines 683-932).  A text input is modelled by what     *)
(* float() makes of its comma-separated tokens: the list of numbers, or    *)
(* not valid if some token is no number.  Maturities are entered in        *)
(* non-decreasing order: np.interp does not check the order of its         *)
(* x-coordinates and its result for other orders is unspecified.           *)
(***************************************************************************)
MaxPoints == 4

\* the value of what a run has not computed or shown
NotComputed == <<>>

NoText == [valid |-> FALSE, numbers |-> <<>>]

\* lines 721-727: both lists, or two empty lists after the warning
parse_manual_input(manual_maturities_, manual_yields_) ==
    IF manual_maturities_.valid /\ manual_yields_.valid
    THEN [maturities |-> manual_maturities_.numbers,
          yields |-> [i \in DOMAIN manual_yields_.numbers |->
                         Div(manual_yields_.numbers[i], FromInt(100))]]
    ELSE [maturities |-> <<>>, yields |-> <<>>]

\* Python's max and min of a non-empty list of floats
RECURSIVE max(_)
max(xs) ==
    IF Len(xs) = 1 THEN xs[1]
    ELSE LET rest == max(Tail(xs)) IN IF Lt(Head(xs), rest) THEN rest ELSE Head(xs)

RECURSIVE min(_)
min(xs) ==
    IF Len(xs) = 1 THEN xs[1]
    ELSE LET rest == min(Tail(xs)) IN IF Lt(rest, Head(xs)) THEN rest ELSE Head(xs)

\* np.interp(x, xp, fp) for one x, lists of equal length and non-decreasing xp:
\* j is the last index with xp[j] <= x; the end values outside the range
np_interp(x, xp, fp) ==
    LET below == {i \in DOMAIN xp : Le(xp[i], x)}
        j == CHOOSE i \in below : \A k \in below : k <= i
    IN  IF below = {} THEN fp[1]
        ELSE IF j = Len(xp) THEN fp[j]
        ELSE IF xp[j] = x THEN fp[j]
        ELSE LET slope == Div(Sub(fp[j + 1], fp[j]), Sub(xp[j + 1], xp[j]))
             IN  Add(Mul(slope, Sub(x, xp[j])), fp[j])

\* vectors of numbers
Dot(u, v) == SumSeq([i \in DOMAIN u |-> Mul(u[i], v[i])])
Scaled(a, u) == [i \in DOMAIN u |-> Mul(a, u[i])]
Minus(u, v) == [i \in DOMAIN u |-> Sub(u[i], v[i])]
IsZeroVector(u) == \A i \in DOMAIN u : u[i] = Zero

\* what is left of v after its components along the orthogonal vectors of basis
\* are taken away
RECURSIVE Residual(_, _)
Residual(v, basis) ==
    IF basis = <<>> THEN v
    ELSE LET b == Head(basis)
         IN  Residual(Minus(v, Scaled(Div(Dot(v, b), Dot(b, b)), b)), Tail(basis))

\* an orthogonal basis of the span of the columns x^k, ..., x^last of the
\* Vandermonde matrix, added to basis
RECURSIVE OrthogonalColumns(_, _, _, _)
OrthogonalColumns(x, k, last, basis) ==
    IF k > last THEN basis
    ELSE LET q == Residual([i \in DOMAIN x |-> Pow(x[i], k)], basis)
         IN  OrthogonalColumns(x, k + 1, last,
                               IF IsZeroVector(q) THEN basis ELSE Append(basis, q))

\* a variant of fitted_values that ignores the degree and fits a straight line
fitted_line(x, y, deg) ==
    LET basis == OrthogonalColumns(x, 0, 1, <<>>) IN Minus(y, Residual(y, basis))

\* lines 762-764: np.poly1d(np.polyfit(x, y, deg)) at the points x themselves.
\* The least-squares polynomial takes at x the orthogonal projection of y on the
\* span of the columns x^0 .. x^deg; with r distinct points the first r columns
\* span it already.
fitted_values(x, y, deg) ==
    LET r == Cardinality({x[i] : i \in DOMAIN x})
        last == IF deg < r - 1 THEN deg ELSE r - 1
        basis == OrthogonalColumns(x, 0, last, <<>>)
    IN  Minus(y, Residual(y, basis))

\* lines 759-768: the fitted curve read at the observed maturities.  The
\* Nelson-Siegel curve is drawn from its four parameters and not from the points.
plot_yields_at_points(maturities_, yields_, model_type_, degree_) ==
    IF model_type_ = "Linear"
    THEN [i \in DOMAIN maturities_ |-> np_interp(maturities_[i], maturities_, yields_)]
    ELSE IF model_type_ = "Polynomial"
    THEN fitted_values(maturities_, yields_, degree_)
    ELSE NotComputed

\* line 809: the curve reaches from 2 years or less to 10 years or more
covers_2_to_10(maturities_) ==
    Le(FromInt(10), max(maturities_)) /\ Le(min(maturities_), FromInt(2))

\* lines 810-812: slope = (y10 - y2)*100 of the decimal yields
slope_of(maturities_, yields_) ==
    Mul(Sub(np_interp(FromInt(10), maturities_, yields_),
            np_interp(FromInt(2), maturities_, yields_)), FromInt(100))

\* lines 819-821; nothing is shown unless 5 is one of the maturities
curvature_of(maturities_, yields_) ==
    IF \E i \in DOMAIN maturities_ : maturities_[i] = FromInt(5)
    THEN Mul(Sub(Sub(Mul(FromInt(2), np_interp(FromInt(5), maturities_, yields_)),
                     np_interp(FromInt(2), maturities_, yields_)),
                 np_interp(FromInt(10), maturities_, yields_)), FromInt(10000))
    ELSE NotComputed

\* lines 826-831
curve_shape(slope) ==
    IF Lt(slope, Zero) THEN "INVERTED"
    ELSE IF Lt(slope, FromInt(50)) THEN "FLAT"
    ELSE "NORMAL"

\* lines 849-852 for whole years: the exponents end_year, start_year and
\* 1/(end_year - start_year) are whole numbers on the grid YearInputs
forward_rate_of(maturities_, yields_, start_year_, end_year_) ==
    IF Lt(start_year_, end_year_)
    THEN LET y_start == np_interp(start_year_, maturities_, yields_)
             y_end == np_interp(end_year_, maturities_, yields_)
         IN  Sub(Pow(Div(Pow(Add(One, y_end), end_year_[1]),
                         Pow(Add(One, y_start), start_year_[1])),
                     Inv(Sub(end_year_, start_year_))[1]), One)
    ELSE NotComputed

\* np.exp(-((t-5)**2)/10) of line 886 at the maturities of MaturityGrid, rounded
\* to four decimals
hump_weight(t) ==
    CASE t = FromInt(5) -> One
      [] t = FromInt(1) -> Rat(2019, 10000)
      [] t = FromInt(2) -> Rat(4066, 10000)
      [] t = FromInt(10) -> Rat(821, 10000)

\* a variant of parallel_shift that scales every yield by the shift
parallel_scaled(yields_, shift_size_) ==
    [i \in DOMAIN yields_ |-> Mul(yields_[i], Add(One, Rat(shift_size_, 10000)))]

\* line 880
parallel_shift(yields_, shift_size_) ==
    [i \in DOMAIN yields_ |-> Add(yields_[i], Rat(shift_size_, 10000))]

\* zip(maturities, yields) stops at the shorter list
zip_indices(maturities_, yields_) ==
    1..(IF Len(maturities_) < Len(yields_) THEN Len(maturities_) ELSE Len(yields_))

\* line 882
steepening_shift(maturities_, yields_, shift_size_) ==
    [i \in zip_indices(maturities_, yields_) |->
        Add(yields_[i], Mul(Rat(shift_size_, 10000),
                            Div(maturities_[i], max(maturities_))))]

\* line 884
flattening_shift(maturities_, yields_, shift_size_) ==
    [i \in zip_indices(maturities_, yields_) |->
        Add(yields_[i], Mul(Rat(shift_size_, 10000),
                            Sub(One, Div(maturities_[i], max(maturities_)))))]

\* line 886
hump_shift(maturities_, yields_, shift_size_) ==
    [i \in zip_indices(maturities_, yields_) |->
        Add(yields_[i], Mul(Rat(shift_size_, 10000), hump_weight(maturities_[i])))]

\* lines 879-886: the list new_yields
new_yields_of(maturities_, yields_, shift_type_, shift_size_) ==
    IF shift_type_ = "Parallel" THEN parallel_shift(yields_, shift_size_)
    ELSE IF shift_type_ = "Steepening"
    THEN steepening_shift(maturities_, yields_, shift_size_)
    ELSE IF shift_type_ = "Flattening"
    THEN flattening_shift(maturities_, yields_, shift_size_)
    ELSE hump_shift(maturities_, yields_, shift_size_)

\* a variant of apply_shift that writes the shifted yields into the list yields
apply_shift_in_place(maturities_, yields_, shift_type_, shift_size_) ==
    LET new_yields == new_yields_of(maturities_, yields_, shift_type_, shift_size_)
    IN  [maturities |-> maturities_, yields |-> new_yields, new_yields |-> new_yields]

\* lines 878-886: the three lists after the shift is applied
apply_shift(maturities_, yields_, shift_type_, shift_size_) ==
    [maturities |-> maturities_, yields |-> yields_,
     new_yields |-> new_yields_of(maturities_, yields_, shift_type_, shift_size_)]

\* line 916: the default of "Example Bond Maturity"
example_maturity == 5

\* what a run shows if the lists are empty (line 755): nothing but the inputs
EmptyPage(maturities_, yields_) ==
    [maturities |-> maturities_, yields |-> yields_, raised |-> "none",
     warning |-> "", plot_yields |-> NotComputed, slope |-> NotComputed,
     curvature |-> NotComputed, shape |-> "", forward_rate |-> NotComputed,
     current_curve |-> NotComputed, shifted_curve |-> NotComputed,
     original_yield |-> NotComputed, new_yield |-> NotComputed]

\* lines 807-932 for lists of equal length that cover 2 to 10 years
analytics_and_queries(page, start_year_, end_year_, shift_type_, shift_size_) ==
    LET slope == slope_of(page.maturities, page.yields)
        after == apply_shift(page.maturities, page.yields, shift_type_, shift_size_)
    IN  [page EXCEPT
            !.slope = slope,
            !.curvature = curvature_of(page.maturities, page.yields),
            !.shape = curve_shape(slope),
            !.forward_rate = forward_rate_of(page.maturities, page.yields,
                                             start_year_, end_year_),
            !.current_curve = <<after.maturities, after.yields>>,
            !.shifted_curve = <<after.maturities, after.new_yields>>,
            !.original_yield = np_interp(FromInt(example_maturity), after.maturities,
                                         after.yields),
            !.new_yield = np_interp(FromInt(example_maturity), after.maturities,
                                    after.new_yields)]

\* lines 710-932: one run of the page.  np.interp raises ValueError and np.polyfit
\* TypeError for lists of different lengths; the name slope is not bound at
\* line 826 if the curve does not cover 2 to 10 years.
curve_run(manual_maturities_, manual_yields_, model_type_, degree_, start_year_, end_year_, shift_type_, shift_size_) ==
    LET parsed == parse_manual_input(manual_maturities_, manual_yields_)
        blank == EmptyPage(parsed.maturities, parsed.yields)
        same_length == Len(parsed.maturities) = Len(parsed.yields)
    IN  IF ~(manual_maturities_.valid /\ manual_yields_.valid)
        THEN [blank EXCEPT !.warning = "Please enter valid comma-separated numbers"]
        ELSE IF parsed.maturities = <<>> \/ parsed.yields = <<>> THEN blank
        ELSE IF model_type_ = "Linear" /\ ~same_length
        THEN [blank EXCEPT !.raised = "ValueError"]
        ELSE IF model_type_ = "Polynomial" /\ ~same_length
        THEN [blank EXCEPT !.raised = "TypeError"]
        ELSE LET plotted ==
                    [blank EXCEPT !.plot_yields =
                        plot_yields_at_points(parsed.maturities, parsed.yields,
                                              model_type_, degree_)]
             IN  IF ~covers_2_to_10(parsed.maturities)
                 THEN [plotted EXCEPT !.warning = "Need 2Y and 10Y points for slope",
                                      !.raised = "NameError"]
                 ELSE IF ~same_length
                 THEN [plotted EXCEPT !.raised = "ValueError"]
                 ELSE analytics_and_queries(plotted, start_year_, end_year_,
                                            shift_type_, shift_size_)

\* the run reached the sections below the curve analytics
QueriesShown(page) == page.shape # ""

(***************************************************************************)
(* State.                                                                  *)
(***************************************************************************)
VARIABLES
    args,               \* the bond terms entered: the arguments of calculate_bond_metrics
    today,              \* datetime.today().year
    results,            \* what the call of this run returned or raised; NotRun if none
    dollar_duration,    \* st.session_state.dollar_duration
    dollar_convexity,   \* st.session_state.dollar_convexity
    price,              \* st.session_state.price
    selected_scenario,  \* st.session_state.selected_scenario
    custom_shock,       \* the custom shock input, in basis points
    stress,             \* what the stress section of the last run showed
    bond_data,          \* st.session_state.bond_data of the Bond Comparison Tool
    advanced_mode,      \* st.session_state.advanced_mode
    manual_maturities,  \* Yield Curve page: the "Maturities" text input
    manual_yields,      \* Yield Curve page: the "Yields" text input
    model_type,         \* the "Interpolation Model" selectbox
    degree,             \* the "Polynomial Degree" slider
    start_year,         \* the "Start Year" input
    end_year,           \* the "End Year" input
    shift_type,         \* the "Shift Type" radio
    shift_size,         \* the "Shift Magnitude (bps)" slider
    curve_page,         \* what the last run of the Yield Curve page computed and showed
    yield_vol,          \* Risk Metrics page: "Yield Volatility (bps/day)"
    confidence_level,   \* Risk Metrics page: "Confidence Level"
    horizon_days,       \* Risk Metrics page: "Horizon (days)"
    risk_measures,      \* what the button block of the last Risk Metrics run computed
    portfolio_bonds,    \* Portfolio page: the list of bond dictionaries entered
    portfolio_shift,    \* Portfolio page: st.session_state.shift_size
    portfolio_page      \* what the last run of the Portfolio page computed and stored

call_vars == <<args, today, results>>
session_vars == <<dollar_duration, dollar_convexity, price>>
stress_vars == <<selected_scenario, custom_shock, stress>>
compare_vars == <<bond_data, advanced_mode>>
curve_input_vars == <<manual_maturities, manual_yields, model_type, degree>>
curve_query_vars == <<start_year, end_year, shift_type, shift_size>>
curve_vars == <<curve_input_vars, curve_query_vars, curve_page>>
vars == <<args, today, results, dollar_duration, dollar_convexity, price,
          selected_scenario, custom_shock, stress, bond_data, advanced_mode,
          manual_maturities, manual_yields, model_type, degree, start_year, end_year,
          shift_type, shift_size, curve_page,
          yield_vol, confidence_level, horizon_days, risk_measures,
          portfolio_bonds, portfolio_shift, portfolio_page>>

NotRun == [raised |-> "not run"]

\* lines 941-944 and 1149-1150: the session before any button is pressed
FreshSession ==
    /\ dollar_duration = Zero
    /\ dollar_convexity = Zero
    /\ price = Zero
    /\ selected_scenario = "2020 COVID Crisis"
    /\ custom_shock = DefaultCustomShock

\* lines 1004-1011 and 1036-1051: the market-risk inputs at their defaults; no
\* button block shown
DefaultRiskInputs ==
    /\ yield_vol = FromInt(DefaultYieldVol)
    /\ confidence_level = FromInt(DefaultConfidenceLevel)
    /\ horizon_days = DefaultHorizonDays
    /\ risk_measures = NotRendered

\* the Portfolio page before it is opened
PortfolioNotOpened ==
    /\ portfolio_bonds = <<>>
    /\ portfolio_shift = DefaultPortfolioShift
    /\ portfolio_page = NotRendered

\* the Yield Curve page before it is opened
CurveNotOpened ==
    /\ manual_maturities = NoText
    /\ manual_yields = NoText
    /\ model_type = "Linear"
    /\ degree = 3
    /\ start_year = One
    /\ end_year = FromInt(2)
    /\ shift_type = "Parallel"
    /\ shift_size = 100
    /\ curve_page = NotRendered

\* lines 1398-1400: the Bond Comparison Tool before any bond is added
NoBonds ==
    /\ bond_data = <<>>
    /\ advanced_mode = FALSE

(***************************************************************************)
(* Spec: calculate_bond_metrics applied to the arguments the Bond Pricing  *)
(* and Portfolio pages can pass.  The call touches no session state.       *)
(***************************************************************************)
Init ==
    /\ args \in PricingPageArgs \cup PortfolioArgs
    /\ today \in TodayYears
    /\ results = NotRun
    /\ FreshSession
    /\ stress = NotRendered
    /\ NoBonds
    /\ CurveNotOpened
    /\ DefaultRiskInputs
    /\ PortfolioNotOpened

\* one call of calculate_bond_metrics with the arguments entered
Calculate ==
    /\ results = NotRun
    /\ results' = Metrics(args, today)
    /\ UNCHANGED <<args, today, session_vars, stress_vars>>
    /\ UNCHANGED <<compare_vars, curve_vars, yield_vol, confidence_level, horizon_days,
                   risk_measures, portfolio_bonds, portfolio_shift, portfolio_page>>

Next == Calculate

Spec == Init /\ [][Next]_vars

(***************************************************************************)
(* RiskSpec: a session on the Risk Metrics page.  Every action is one run  *)
(* of the script (lines 937-1203) after a user interaction.                *)
(***************************************************************************)
RiskInit ==
    /\ args \in RiskPageArgs
    /\ today = 0  \* not read: the page prices vanilla bonds only
    /\ results = NotRun
    /\ FreshSession
    /\ stress = StressSection(Zero, Zero, Zero, "2020 COVID Crisis", DefaultCustomShock)
    /\ NoBonds
    /\ CurveNotOpened
    /\ DefaultRiskInputs
    /\ PortfolioNotOpened

Fields == {"face_value", "coupon_rate", "ytm", "years_to_maturity", "coupon_freq"}

\* the user changes one input widget of the bond; the run does not press the
\* button, so the stress section is drawn from the stored snapshot
ChangeTerms ==
    \E a \in RiskPageArgs :
        /\ Cardinality({f \in Fields : a[f] # args[f]}) = 1
        /\ args' = a
        /\ results' = NotRun
        /\ stress' = StressSection(dollar_duration, dollar_convexity, price,
                                   selected_scenario, custom_shock)
        /\ risk_measures' = NotRendered
        /\ UNCHANGED <<today, session_vars, selected_scenario, custom_shock>>
        /\ UNCHANGED <<compare_vars, curve_vars, yield_vol, confidence_level, horizon_days,
                       portfolio_bonds, portfolio_shift, portfolio_page>>

\* lines 1053-1070, then 1146-1195: "Calculate Risk Metrics" is pressed
CalculateRisk ==
    LET bond_metrics == Metrics(args, today)
    IN  /\ results' = bond_metrics
        /\ IF bond_metrics.raised # "none"
           THEN /\ UNCHANGED session_vars
                /\ risk_measures' = NotRendered
                /\ stress' = NotRendered
           ELSE LET snapshot == risk_snapshot(bond_metrics)
                IN  /\ dollar_duration' = snapshot.dollar_duration
                    /\ dollar_convexity' = snapshot.dollar_convexity
                    /\ price' = snapshot.price
                    /\ risk_measures' = risk_measures_of(snapshot, yield_vol,
                                                         confidence_level, horizon_days)
                    /\ stress' = StressSection(snapshot.dollar_duration,
                                               snapshot.dollar_convexity, snapshot.price,
                                               selected_scenario, custom_shock)
        /\ UNCHANGED <<args, today, selected_scenario, custom_shock>>
        /\ UNCHANGED <<compare_vars, curve_vars, yield_vol, confidence_level, horizon_days,
                       portfolio_bonds, portfolio_shift, portfolio_page>>

\* lines 1152-1163: another scenario is selected; the custom shock input is shown
\* (at its default) only while "Custom Shock" is selected
SelectScenario ==
    \E sc \in Scenarios \ {selected_scenario} :
        /\ selected_scenario' = sc
        /\ custom_shock' = DefaultCustomShock
        /\ results' = NotRun
        /\ stress' = StressSection(dollar_duration, dollar_convexity, price,
                                   sc, DefaultCustomShock)
        /\ risk_measures' = NotRendered
        /\ UNCHANGED <<args, today, session_vars>>
        /\ UNCHANGED <<compare_vars, curve_vars, yield_vol, confidence_level, horizon_days,
                       portfolio_bonds, portfolio_shift, portfolio_page>>

\* lines 1165-1173: the custom shock is changed
SetCustomShock ==
    \E v \in CustomShocks \ {custom_shock} :
        /\ selected_scenario = "Custom Shock"
        /\ custom_shock' = v
        /\ results' = NotRun
        /\ stress' = StressSection(dollar_duration, dollar_convexity, price,
                                   selected_scenario, v)
        /\ risk_measures' = NotRendered
        /\ UNCHANGED <<args, today, session_vars, selected_scenario>>
        /\ UNCHANGED <<compare_vars, curve_vars, yield_vol, confidence_level, horizon_days,
                       portfolio_bonds, portfolio_shift, portfolio_page>>

RiskNext == ChangeTerms \/ CalculateRisk \/ SelectScenario \/ SetCustomShock

RiskSpec == RiskInit /\ [][RiskNext]_vars

(***************************************************************************)
(* VarSpec: a session on the Risk Metrics page in which the market-risk    *)
(* and VaR inputs are edited and the button is pressed; the bond entered   *)
(* and the stress scenario stay as they are.                               *)
(***************************************************************************)
VarInit == RiskInit

\* lines 1004-1011: the yield volatility is changed; the run does not press the
\* button, so its block is not drawn
SetYieldVol ==
    \E v \in YieldVols \ {yield_vol} :
        /\ yield_vol' = v
        /\ results' = NotRun
        /\ risk_measures' = NotRendered
        /\ stress' = StressSection(dollar_duration, dollar_convexity, price,
                                   selected_scenario, custom_shock)
        /\ UNCHANGED <<args, today, session_vars, selected_scenario, custom_shock>>
        /\ UNCHANGED <<compare_vars, curve_vars, confidence_level, horizon_days,
                       portfolio_bonds, portfolio_shift, portfolio_page>>

\* lines 1037-1042: another confidence level is selected
SelectConfidenceLevel ==
    \E c \in ConfidenceLevels \ {confidence_level} :
        /\ confidence_level' = c
        /\ results' = NotRun
        /\ risk_measures' = NotRendered
        /\ stress' = StressSection(dollar_duration, dollar_convexity, price,
                                   selected_scenario, custom_shock)
        /\ UNCHANGED <<args, today, session_vars, selected_scenario, custom_shock>>
        /\ UNCHANGED <<compare_vars, curve_vars, yield_vol, horizon_days,
                       portfolio_bonds, portfolio_shift, portfolio_page>>

\* lines 1045-1051: the horizon is changed
SetHorizonDays ==
    \E h \in HorizonDays \ {horizon_days} :
        /\ horizon_days' = h
        /\ results' = NotRun
        /\ risk_measures' = NotRendered
        /\ stress' = StressSection(dollar_duration, dollar_convexity, price,
                                   selected_scenario, custom_shock)
        /\ UNCHANGED <<args, today, session_vars, selected_scenario, custom_shock>>
        /\ UNCHANGED <<compare_vars, curve_vars, yield_vol, confidence_level,
                       portfolio_bonds, portfolio_shift, portfolio_page>>

VarNext == SetYieldVol \/ SelectConfidenceLevel \/ SetHorizonDays \/ CalculateRisk

VarSpec == VarInit /\ [][VarNext]_vars

(***************************************************************************)
(* ImpactSpec: a session that uses the Risk Metrics page and then moves to *)
(* the Portfolio Analysis page.  The widgets of a page that is left lose   *)
(* their values; st.session_state keeps the snapshot and the scenario.     *)
(***************************************************************************)
ImpactInit ==
    /\ RiskInit
    /\ args.face_value = 100 /\ args.coupon_rate = 10
    /\ args.coupon_freq = "Annual" /\ args.years_to_maturity = FromInt(2)

\* "Portfolio Analysis" is chosen in the sidebar; no bond is entered yet
OpenPortfolio ==
    /\ portfolio_page = NotRendered
    /\ portfolio_page' = [kind |-> "no analysis"]
    /\ results' = NotRun
    /\ risk_measures' = NotRendered
    /\ stress' = NotRendered
    /\ custom_shock' = DefaultCustomShock
    /\ UNCHANGED <<args, today, session_vars, selected_scenario, compare_vars, curve_vars,
                   yield_vol, confidence_level, horizon_days, portfolio_bonds,
                   portfolio_shift>>

\* lines 503-555: one more bond is entered; the run does not press the button
EnterHolding ==
    \E bond \in PortfolioHoldings :
        /\ Len(portfolio_bonds) < MaxHoldings
        /\ portfolio_bonds' = Append(portfolio_bonds, bond)
        /\ portfolio_page' = [kind |-> "no analysis"]
        /\ UNCHANGED <<call_vars, session_vars, stress_vars, compare_vars, curve_vars,
                       yield_vol, confidence_level, horizon_days, risk_measures,
                       portfolio_shift>>

\* lines 571-650: "Analyze Portfolio" is pressed
AnalyzePortfolio ==
    /\ portfolio_page' = IF portfolio_bonds = <<>> THEN [kind |-> "no analysis"]
                         ELSE analyze_portfolio(portfolio_bonds, portfolio_shift)
    /\ UNCHANGED <<call_vars, session_vars, stress_vars, compare_vars, curve_vars,
                   yield_vol, confidence_level, horizon_days, risk_measures,
                   portfolio_bonds, portfolio_shift>>

\* lines 628-639: the slider inside the button block is moved; update_shift
\* stores the value and the run that follows does not press the button
MoveShiftSlider ==
    \E v \in PortfolioShifts \ {portfolio_shift} :
        /\ portfolio_page.kind = "shown"
        /\ portfolio_shift' = v
        /\ portfolio_page' = [kind |-> "no analysis"]
        /\ UNCHANGED <<call_vars, session_vars, stress_vars, compare_vars, curve_vars,
                       yield_vol, confidence_level, horizon_days, risk_measures,
                       portfolio_bonds>>

ImpactNext ==
    \/ portfolio_page = NotRendered /\ (CalculateRisk \/ SelectScenario \/ SetCustomShock)
    \/ OpenPortfolio
    \/ portfolio_page # NotRendered /\ (EnterHolding \/ AnalyzePortfolio \/ MoveShiftSlider)

ImpactSpec == ImpactInit /\ [][ImpactNext]_vars

(***************************************************************************)
(* Bond Comparison Tool (lines 1394-1562).  Dates are day numbers counted  *)
(* from the day the bond is added.                                         *)
(***************************************************************************)
MaxBonds == 2

\* the value of the fields not yet computed
None == <<>>

\* lines 1403-1418: the dictionary add_bond appends
new_bond(name, purchase_price, face_value, coupon_rate, coupon_freq, maturity_date) ==
    [name |-> name, purchase_price |-> purchase_price, face_value |-> face_value,
     coupon_rate |-> coupon_rate, coupon_freq |-> coupon_freq,
     maturity_date |-> maturity_date, current_date |-> 0,
     ytm |-> None, duration |-> None,
     credit_spread |-> 100, rating |-> "BBB", sector |-> "Corporate"]

\* line 1449: (maturity_date - current_date).days / 365.25
years_between(current_date, maturity_date) == Rat(4 * (maturity_date - current_date), 1461)

\* lines 1464-1465: what the bare except assigns
except_defaults(bond) == [bond EXCEPT !.ytm = Zero, !.duration = Zero]

\* lines 1447-1465: the body of the loop for one bond.  The operands are Python
\* floats, so a division by zero raises ZeroDivisionError, which the bare except
\* catches.
basic_metrics_of(bond) ==
    LET years_to_maturity == years_between(bond.current_date, bond.maturity_date)
        periods_per_year == FromInt(freq_map[bond.coupon_freq])
        coupon_payment == Div(Mul(FromInt(bond.face_value), Rat(bond.coupon_rate, 100)),
                              periods_per_year)
        total_coupons == Mul(Mul(coupon_payment, years_to_maturity), periods_per_year)
        total_gain == Sub(FromInt(bond.face_value), bond.purchase_price)
        ytm == Div(Div(Add(total_coupons, total_gain), years_to_maturity),
                   bond.purchase_price)
    IN  IF years_to_maturity = Zero \/ bond.purchase_price = Zero
        THEN except_defaults(bond)
        ELSE IF Add(One, ytm) = Zero
        THEN except_defaults([bond EXCEPT !.ytm = ytm])
        ELSE [bond EXCEPT !.ytm = ytm, !.duration = Div(years_to_maturity, Add(One, ytm))]

\* lines 1445-1446: every bond of the session is recomputed, in place
calculate_basic_metrics(bonds) == [i \in DOMAIN bonds |-> basic_metrics_of(bonds[i])]

\* lines 1428-1436: values of the form's inputs
BondNames == {"", "Bond"}
CompareFaceValues == {0, 100}
CompareCouponRates == {0, 10}
CompareFrequencies == {"Annual", "Semi-Annual"}
MaturityDates == {0, 1461}
MarketYields == {50}

\* the price calculate_bond_metrics gives a vanilla bond of these terms at annual
\* yield y (in percent); no price if the call raises
PricesAt(face_value, coupon_rate, coupon_freq, maturity_date, y) ==
    LET m == calculate_bond_metrics(face_value, coupon_rate, y,
                                    years_between(0, maturity_date), coupon_freq,
                                    "Vanilla Fixed Rate", NoKwargs, 0)
    IN  IF m.raised = "none" THEN {m.Price} ELSE {}

\* purchase prices entered: 0, 100, or the price of the bond at a market yield
PurchasePrices(face_value, coupon_rate, coupon_freq, maturity_date) ==
    {Zero, FromInt(100)} \cup
    UNION {PricesAt(face_value, coupon_rate, coupon_freq, maturity_date, y) : y \in MarketYields}

pricing_untouched ==
    UNCHANGED <<call_vars, session_vars, stress_vars, yield_vol, confidence_level,
                horizon_days, risk_measures, portfolio_bonds, portfolio_shift, portfolio_page>>

\* no page other than the one of the specification has been opened
PricingNotOpened ==
    /\ args = [face_value |-> 100, coupon_rate |-> 10, ytm |-> 0,
               years_to_maturity |-> One, coupon_freq |-> "Annual",
               bond_type |-> "Vanilla Fixed Rate", kwargs |-> NoKwargs]
    /\ today = 0
    /\ results = NotRun
    /\ FreshSession
    /\ stress = NotRendered
    /\ DefaultRiskInputs
    /\ PortfolioNotOpened

(***************************************************************************)
(* CompareSpec: a session on the Bond Comparison Tool.  Every action is    *)
(* one interaction followed by the rerun of the script, which recomputes   *)
(* the metrics of every bond of the session (lines 1473-1474).             *)
(***************************************************************************)
CompareInit ==
    /\ PricingNotOpened
    /\ NoBonds
    /\ CurveNotOpened

\* lines 1438-1442 and 1473-1474: "Add Bond" is submitted
AddBond ==
    \E name \in BondNames, face_value \in CompareFaceValues,
       coupon_rate \in CompareCouponRates, coupon_freq \in CompareFrequencies,
       maturity_date \in MaturityDates :
      \E purchase_price \in PurchasePrices(face_value, coupon_rate, coupon_freq, maturity_date) :
        /\ Len(bond_data) < MaxBonds
        /\ bond_data' =
              IF name # ""
              THEN calculate_basic_metrics(
                       Append(bond_data, new_bond(name, purchase_price, face_value,
                                                  coupon_rate, coupon_freq, maturity_date)))
              ELSE calculate_basic_metrics(bond_data)
        /\ UNCHANGED advanced_mode
        /\ pricing_untouched
        /\ UNCHANGED curve_vars

\* lines 1468-1474: "Toggle Advanced Mode" is pressed
ToggleAdvancedMode ==
    /\ advanced_mode' = ~advanced_mode
    /\ bond_data' = calculate_basic_metrics(bond_data)
    /\ pricing_untouched
    /\ UNCHANGED curve_vars

ClearAllBonds_keeps_mode ==
    /\ bond_data' = <<>>
    /\ UNCHANGED advanced_mode
    /\ pricing_untouched
    /\ UNCHANGED curve_vars

\* lines 1559-1562: "Clear All Bonds" is pressed
ClearAllBonds ==
    /\ bond_data' = <<>>
    /\ advanced_mode' = FALSE
    /\ pricing_untouched
    /\ UNCHANGED curve_vars

CompareNext == AddBond \/ ToggleAdvancedMode \/ ClearAllBonds

CompareSpec == CompareInit /\ [][CompareNext]_vars

(***************************************************************************)
(* Yield Curve page: the values entered.                                   *)
(***************************************************************************)
MaturityGrid == {1, 2, 5, 10}

\* the maturities of a set in increasing order
Increasing(S) ==
    CHOOSE l \in [1..Cardinality(S) -> S] : \A i \in 1..(Cardinality(S) - 1) : l[i] < l[i + 1]

\* maturity lists with a maturity entered twice
RepeatedMaturities == {<<2, 2, 10>>, <<2, 10, 10>>}

\* lines 712-715: texts of 1 to MaxPoints maturities, increasing or with one
\* maturity repeated, and a text that float() rejects
MaturityTexts ==
    {[valid |-> TRUE, numbers |-> [i \in DOMAIN ns |-> FromInt(ns[i])]] :
        ns \in {l \in {Increasing(S) : S \in SUBSET MaturityGrid \ {{}}}
                         \cup RepeatedMaturities : Len(l) <= MaxPoints}}
    \cup {NoText}

\* yields in percent of n points: all at the low level, the last one at the high
\* level, or the first one at the high level
YieldShapes(n) ==
    {[i \in 1..n |-> Rat(3, 1)],
     [i \in 1..n |-> IF i = n THEN Rat(7, 2) ELSE Rat(3, 1)],
     [i \in 1..n |-> IF i = 1 THEN Rat(7, 2) ELSE Rat(3, 1)]}

\* lines 716-719: texts of 1 to MaxPoints yields, and a text that float() rejects
YieldTexts ==
    {[valid |-> TRUE, numbers |-> ns] : ns \in UNION {YieldShapes(n) : n \in 1..MaxPoints}}
    \cup {NoText}

\* lines 735-742
ModelTypes == {"Linear", "Polynomial", "Nelson-Siegel"}
Degrees == 2..5
DefaultDegree == 3

\* lines 845-847: whole years, one apart
YearInputs == {One, FromInt(2)}

\* lines 864-876
ShiftTypes == {"Parallel", "Steepening", "Flattening", "Hump"}
ShiftSizes == {-100, 50, 100}
DefaultShiftSize == 100

\* the widgets of the two query sections at their defaults
DefaultQueries ==
    /\ start_year = One
    /\ end_year = FromInt(2)
    /\ shift_type = "Parallel"
    /\ shift_size = DefaultShiftSize

comparison_untouched == UNCHANGED compare_vars

(***************************************************************************)
(* CurveSpec: a session on the Yield Curve page in which the curve and the *)
(* interpolation model are edited.  Every action is one interaction and    *)
(* the run of the script that follows it.                                  *)
(***************************************************************************)
CurveInit ==
    /\ PricingNotOpened
    /\ NoBonds
    /\ manual_maturities = [valid |-> TRUE, numbers |-> <<FromInt(2), FromInt(10)>>]
    /\ manual_yields = [valid |-> TRUE, numbers |-> <<Rat(3, 1), Rat(3, 1)>>]
    /\ model_type = "Linear"
    /\ degree = DefaultDegree
    /\ DefaultQueries
    /\ curve_page = curve_run(manual_maturities, manual_yields, model_type, degree,
                              start_year, end_year, shift_type, shift_size)

\* the run that follows an interaction with the curve or the model
RunCurvePage ==
    /\ curve_page' = curve_run(manual_maturities', manual_yields', model_type', degree',
                               start_year', end_year', shift_type', shift_size')
    /\ pricing_untouched
    /\ comparison_untouched

\* lines 712-715: the maturities text is changed
EditMaturities ==
    \E text \in MaturityTexts :
        /\ manual_maturities' = text
        /\ UNCHANGED <<manual_yields, model_type, degree, curve_query_vars>>
        /\ RunCurvePage

\* lines 716-719: the yields text is changed
EditYields ==
    \E text \in YieldTexts :
        /\ manual_yields' = text
        /\ UNCHANGED <<manual_maturities, model_type, degree, curve_query_vars>>
        /\ RunCurvePage

\* lines 735-742: another model is selected; the degree slider is shown, at its
\* default, once "Polynomial" is selected
SelectModel ==
    \E m \in ModelTypes \ {model_type} :
        /\ model_type' = m
        /\ degree' = DefaultDegree
        /\ UNCHANGED <<manual_maturities, manual_yields, curve_query_vars>>
        /\ RunCurvePage

\* line 742: the degree slider is moved
SetDegree ==
    \E d \in Degrees :
        /\ model_type = "Polynomial"
        /\ degree' = d
        /\ UNCHANGED <<manual_maturities, manual_yields, model_type, curve_query_vars>>
        /\ RunCurvePage

CurveNext == EditMaturities \/ EditYields \/ SelectModel \/ SetDegree

CurveSpec == CurveInit /\ [][CurveNext]_vars

(***************************************************************************)
(* CurveQuerySpec: a session on the Yield Curve page in which, for a curve *)
(* entered before, the forward-rate range and the curve shift are edited   *)
(* (linear model).  The two sections are drawn only by a run that gets     *)
(* past the curve analytics.                                               *)
(***************************************************************************)
CurveQueryInit ==
    /\ PricingNotOpened
    /\ NoBonds
    /\ manual_maturities \in MaturityTexts
    /\ manual_yields \in YieldTexts
    /\ model_type = "Linear"
    /\ degree = DefaultDegree
    /\ DefaultQueries
    /\ curve_page = curve_run(manual_maturities, manual_yields, model_type, degree,
                              start_year, end_year, shift_type, shift_size)

\* lines 845-847: "Start Year" is changed
SetStartYear ==
    \E t \in YearInputs :
        /\ QueriesShown(curve_page)
        /\ start_year' = t
        /\ UNCHANGED <<curve_input_vars, end_year, shift_type, shift_size>>
        /\ RunCurvePage

\* lines 845-847: "End Year" is changed
SetEndYear ==
    \E t \in YearInputs :
        /\ QueriesShown(curve_page)
        /\ end_year' = t
        /\ UNCHANGED <<curve_input_vars, start_year, shift_type, shift_size>>
        /\ RunCurvePage

\* lines 864-868: another shift type is selected
SelectShiftType ==
    \E st \in ShiftTypes :
        /\ QueriesShown(curve_page)
        /\ shift_type' = st
        /\ UNCHANGED <<curve_input_vars, start_year, end_year, shift_size>>
        /\ RunCurvePage

\* lines 870-876: the shift magnitude is changed
SetShiftSize ==
    \E size \in ShiftSizes :
        /\ QueriesShown(curve_page)
        /\ shift_size' = size
        /\ UNCHANGED <<curve_input_vars, start_year, end_year, shift_type>>
        /\ RunCurvePage

CurveQueryNext == SetStartYear \/ SetEndYear \/ SelectShiftType \/ SetShiftSize

CurveQuerySpec == CurveQueryInit /\ [][CurveQueryNext]_vars

(***************************************************************************)
(* Notions the claims are stated with, computed independently of the       *)
(* operators above.                                                        *)
(***************************************************************************)
Freq(a) == freq_map[a.coupon_freq]

\* floor(years_to_maturity * frequency)
FloorPeriods(a) == (a.years_to_maturity[1] * Freq(a)) \div a.years_to_maturity[2]

\* face * coupon / frequency, the regular coupon of a period
CouponAmount(a) == Rat(a.face_value * a.coupon_rate, 100 * Freq(a))

\* 1 + periodic yield
DiscountBase(a) == Rat(100 * Freq(a) + a.ytm, 100 * Freq(a))

Returned == results.raised = "none"
Called == results # NotRun

Unimplemented ==
    {"Putable Bond", "Step-Up Coupon", "Step-Down Coupon", "Fixed-to-Floating",
     "Inflation-Linked"}

VanillaOf(a) == [a EXCEPT !.bond_type = "Vanilla Fixed Rate", !.kwargs = NoKwargs]

\* the 0-based index the code gives the call period
CallPeriod(a) == (a.kwargs.call_date - today) * Freq(a)

\* the snapshot a calculate action derives from the terms a
SnapshotOf(a) ==
    LET m == Metrics(a, today)
    IN  IF m.raised # "none" THEN <<>>
        ELSE <<Mul(m.Price, m.ModifiedDuration), Mul(m.Price, m.Convexity), m.Price>>

(***************************************************************************)
(* C1 (RiskSpec).  Whenever the stress section shows a scenario impact,    *)
(* the stored snapshot (dollar duration, dollar convexity, price) it is    *)
(* computed from is the snapshot of the bond terms currently entered: a    *)
(* change of terms without a new calculate action never leaves the old     *)
(* snapshot in use.                                                        *)
(***************************************************************************)
C1_NoStaleSnapshot ==
    stress.kind = "impact" =>
        <<dollar_duration, dollar_convexity, price>> = SnapshotOf(args)

(***************************************************************************)
(* C2 (Spec).  For every bond type and every valid input (face > 0, at     *)
(* least one period, a Callable bond called at a positive price not before *)
(* this year), no entry of the built schedule is negative, the last paying *)
(* entry holds the principal (face value, or the call price of a called    *)
(* bond), and every other entry is a plain coupon or zero.                 *)
(***************************************************************************)
ValidTerms(a) ==
    /\ a.face_value > 0
    /\ FloorPeriods(a) >= 1
    /\ a.bond_type = "Callable Bond" => a.kwargs.call_price > 0 /\ CallPeriod(a) >= 0

PrincipalOf(a) ==
    IF a.bond_type = "Callable Bond" /\ CallPeriod(a) < FloorPeriods(a)
    THEN Rat(a.kwargs.call_price * a.face_value, 100)
    ELSE FromInt(a.face_value)

C2_PrincipalOnceInFinalEntry ==
    (Returned /\ ValidTerms(args)) =>
        LET cf == results.CashFlows
        IN  /\ \A i \in 1..Len(cf) : Le(Zero, cf[i])
            /\ \E k \in 1..Len(cf) :
                /\ cf[k] \in {PrincipalOf(args), Add(PrincipalOf(args), CouponAmount(args))}
                /\ \A j \in (k + 1)..Len(cf) : cf[j] = Zero
                /\ \A j \in 1..(k - 1) : cf[j] \in {Zero, CouponAmount(args)}

(***************************************************************************)
(* C3 (Spec).  A schedule built for a bond (maturity >= 0) has exactly     *)
(* floor(years_to_maturity * frequency) entries - truncated, not rounded - *)
(* and the discount-factor vector has the same length.                     *)
(***************************************************************************)
C3_PeriodCountTruncated ==
    (Returned /\ Le(Zero, args.years_to_maturity)) =>
        /\ Len(results.CashFlows) = FloorPeriods(args)
        /\ Len(results.DiscountFactors) = FloorPeriods(args)

\* a schedule was built for a maturity whose period count rounds up
C3_Witness ==
    /\ Returned
    /\ args.years_to_maturity = Rat(3, 4) /\ args.coupon_freq = "Semi-Annual"
    /\ Len(results.CashFlows) = 1

(***************************************************************************)
(* C4 (Spec).  A call with maturity <= 0 or with a period count of zero    *)
(* fails: no schedule and no pricing result is returned.  (A frequency     *)
(* <= 0 or a missing call date or call price cannot be passed by any page: *)
(* freq_map and the Callable inputs always supply them.)                   *)
(***************************************************************************)
InvalidTerms(a) ==
    \/ Le(a.years_to_maturity, Zero)
    \/ FloorPeriods(a) = 0

C4_InvalidTermsRejected ==
    (Called /\ InvalidTerms(args)) => ~Returned

(***************************************************************************)
(* C5 (Spec).  For a bond type without dedicated cash-flow construction    *)
(* the call does not fail and returns exactly the cash flows of the        *)
(* vanilla bond of the same face value, coupon, frequency and maturity.    *)
(***************************************************************************)
C5_UnimplementedTypesAreVanilla ==
    (Called /\ args.bond_type \in Unimplemented) =>
        LET v == Metrics(VanillaOf(args), today)
        IN  v.raised = "none" =>
                (Returned /\ results.CashFlows = v.CashFlows)

(***************************************************************************)
(* C6 (Spec).  Callable bond.  If the call period lies within the schedule *)
(* (0 <= call_period < periods) the call returns a schedule in which every *)
(* earlier period pays the regular coupon, the call period pays            *)
(* call_price/100 * face and every later period pays 0.  If the call date  *)
(* lies beyond maturity (call_period >= periods) the outcome is that of    *)
(* the vanilla bond of the same terms.                                     *)
(***************************************************************************)
C6_CallableSchedule ==
    (Called /\ args.bond_type = "Callable Bond") =>
        LET cp == CallPeriod(args)
            P == FloorPeriods(args)
        IN  /\ (0 <= cp /\ cp < P) =>
                /\ Returned
                /\ Len(results.CashFlows) = P
                /\ \A i \in 1..P :
                     results.CashFlows[i] =
                        IF i <= cp THEN CouponAmount(args)
                        ELSE IF i = cp + 1
                             THEN Rat(args.kwargs.call_price * args.face_value, 100)
                             ELSE Zero
            /\ (cp >= P /\ cp >= 0) => results = Metrics(VanillaOf(args), today)

\* a bond called strictly inside its schedule, after a coupon and before a zero
C6_Witness ==
    /\ Returned /\ args.bond_type = "Callable Bond"
    /\ args.face_value > 0 /\ args.coupon_rate > 0 /\ args.kwargs.call_price > 0
    /\ CallPeriod(args) >= 1 /\ CallPeriod(args) + 1 < Len(results.CashFlows)

(***************************************************************************)
(* C7 (Spec).  Vanilla bond: every period but the last pays                *)
(* face * coupon / frequency, the last pays that coupon plus the face      *)
(* value.  Zero-coupon bond: every period pays 0 but the last, which pays  *)
(* the face value.                                                         *)
(***************************************************************************)
C7_VanillaAndZeroCoupon ==
    Returned =>
        LET cf == results.CashFlows
            P == Len(cf)
        IN  /\ args.bond_type = "Vanilla Fixed Rate" =>
                /\ P >= 1
                /\ \A i \in 1..(P - 1) : cf[i] = CouponAmount(args)
                /\ cf[P] = Add(CouponAmount(args), FromInt(args.face_value))
            /\ args.bond_type = "Zero Coupon" =>
                /\ P >= 1
                /\ \A i \in 1..(P - 1) : cf[i] = Zero
                /\ cf[P] = FromInt(args.face_value)

\* a vanilla bond of several periods with a coupon was built
C7_Witness ==
    /\ Returned /\ args.bond_type = "Vanilla Fixed Rate"
    /\ args.face_value > 0 /\ args.coupon_rate > 0
    /\ Len(results.CashFlows) >= 2

(***************************************************************************)
(* C8 (Spec).  Whenever 1 + periodic yield <= 0 the call fails: no price,  *)
(* duration or convexity is returned.                                      *)
(***************************************************************************)
C8_NonPositiveDiscountBaseFails ==
    (Called /\ Le(DiscountBase(args), Zero)) => ~Returned

(***************************************************************************)
(* C9 (Spec).  Original: every result has price > 0 whenever all cash      *)
(* flows are >= 0 and the periodic yield is > -1, including face value 0   *)
(* and the types without dedicated cash-flow logic.                        *)
(***************************************************************************)
AllNonNegative(cf) == \A i \in 1..Len(cf) : Le(Zero, cf[i])

C10_ZeroPriceGuarded ==
    Returned =>
        \/ results.Price # Zero
        \/ /\ IsFinite(results.MacaulayDuration)
           /\ IsFinite(results.ModifiedDuration)
           /\ IsFinite(results.Convexity)

IsPerfectPower(m, k) == \E r \in 0..m : Pow(FromInt(r), k) = FromInt(m)
RootOf(m, k) == CHOOSE r \in 0..m : Pow(FromInt(r), k) = FromInt(m)

\* x^y for rationals x > 0, y >= 0; NaN stands for an irrational value, which no
\* price computed in rationals equals
RealPow(x, y) ==
    IF y[2] = 1 THEN Pow(x, y[1])
    ELSE IF IsPerfectPower(x[1], y[2]) /\ IsPerfectPower(x[2], y[2])
         THEN Pow(Rat(RootOf(x[1], y[2]), RootOf(x[2], y[2])), y[1])
         ELSE NaN

\* 1 + ytm, ytm the annual yield as a decimal
AnnualBase(a) == Rat(100 + a.ytm, 100)

C12_ZeroCouponAnnualCompounding ==
    (Returned /\ args.bond_type = "Zero Coupon") =>
        results.Price =
            Div(FromInt(args.face_value), RealPow(AnnualBase(args), args.years_to_maturity))

(***************************************************************************)
(* C12 amended (Spec).  For a zero-coupon bond the price is                *)
(* face_value / (1 + ytm/n)^floor(maturity * n), n the payments per year;  *)
(* it equals face_value / (1 + ytm)^maturity when payments are annual and  *)
(* the maturity is a whole number of years.                                *)
(***************************************************************************)
C12_ZeroCouponPeriodicCompounding ==
    (Returned /\ args.bond_type = "Zero Coupon") =>
        /\ results.Price =
              Div(FromInt(args.face_value), Pow(DiscountBase(args), FloorPeriods(args)))
        /\ (args.coupon_freq = "Annual" /\ args.years_to_maturity[2] = 1) =>
              results.Price =
                 Div(FromInt(args.face_value),
                     RealPow(AnnualBase(args), args.years_to_maturity))

\* a zero-coupon bond priced over several sub-annual periods at a positive yield
C12_Witness ==
    /\ Returned /\ args.bond_type = "Zero Coupon"
    /\ args.face_value > 0 /\ args.ytm > 0
    /\ Freq(args) > 1 /\ Len(results.CashFlows) >= 2

(***************************************************************************)
(* C13 (CompareSpec).  Round trip between pricing and yield computation:   *)
(* a bond bought at the positive price that calculate_bond_metrics gives   *)
(* its terms at the annual yield y is assigned the yield y (as annual or   *)
(* as periodic yield) within the tolerance.                                *)
(***************************************************************************)
SolverTolerance == Rat(1, 1000)

AbsDiff(x, y) == IF Lt(x, y) THEN Sub(y, x) ELSE Sub(x, y)

\* bond b was bought at its price at the annual yield y (in percent)
PricedAt(b, y) ==
    \E p \in PricesAt(b.face_value, b.coupon_rate, b.coupon_freq, b.maturity_date, y) :
        Lt(Zero, p) /\ b.purchase_price = p

C13_RoundTrip ==
    \A i \in DOMAIN bond_data : \A y \in MarketYields :
        PricedAt(bond_data[i], y) =>
            \/ Le(AbsDiff(bond_data[i].ytm, Rat(y, 100)), SolverTolerance)
            \/ Le(AbsDiff(bond_data[i].ytm, Rat(y, 100 * freq_map[bond_data[i].coupon_freq])),
                  SolverTolerance)

(***************************************************************************)
(* C14 (CompareSpec).  No bond whose yield computation divides by zero     *)
(* (maturity on the day it was added, or purchase price 0) holds yield 0   *)
(* or duration 0 in place of the failed result.                            *)
(***************************************************************************)
DividesByZero(b) == b.maturity_date = b.current_date \/ b.purchase_price = Zero

C14_NoSilentDefault ==
    \A i \in DOMAIN bond_data :
        DividesByZero(bond_data[i]) =>
            bond_data[i].ytm # Zero /\ bond_data[i].duration # Zero

(***************************************************************************)
(* Yield Curve page: notions of the claims.                                *)
(***************************************************************************)
\* the lists the last run parsed from the two texts
Curve == parse_manual_input(manual_maturities, manual_yields)

\* one yield per maturity, at least two points, no maturity twice
ValidCurve ==
    /\ Len(Curve.maturities) = Len(Curve.yields)
    /\ Len(Curve.maturities) >= 2
    /\ \A i, j \in DOMAIN Curve.maturities : i # j => Curve.maturities[i] # Curve.maturities[j]

Plotted == curve_page.plot_yields # NotComputed

NothingComputed ==
    /\ curve_page.plot_yields = NotComputed
    /\ curve_page.slope = NotComputed
    /\ curve_page.forward_rate = NotComputed
    /\ curve_page.shifted_curve = NotComputed

\* y(10) - y(2) in basis points
SlopeBps ==
    Mul(Sub(np_interp(FromInt(10), Curve.maturities, Curve.yields),
            np_interp(FromInt(2), Curve.maturities, Curve.yields)), FromInt(10000))

(***************************************************************************)
(* C15 (CurveSpec).  From an input that is not a curve of at least 2       *)
(* points with distinct maturities and one yield per maturity, the run     *)
(* computes no interpolation, slope, forward rate or shift, and reports a  *)
(* failure.                                                                *)
(***************************************************************************)
C15_InvalidCurveRejected ==
    ~ValidCurve =>
        /\ NothingComputed
        /\ curve_page.raised # "none" \/ curve_page.warning # ""

C18_ShiftLeavesOriginal ==
    QueriesShown(curve_page) =>
        /\ curve_page.shifted_curve[1] = Curve.maturities
        /\ Len(curve_page.shifted_curve[2]) = Len(Curve.maturities)
        /\ curve_page.current_curve = <<Curve.maturities, Curve.yields>>
        /\ curve_page.original_yield =
              np_interp(FromInt(example_maturity), Curve.maturities, Curve.yields)

\* a hump shift whose curve differs from the original at the example maturity
C18_Witness ==
    /\ QueriesShown(curve_page) /\ shift_type = "Hump"
    /\ curve_page.shifted_curve[2] # Curve.yields
    /\ curve_page.new_yield # curve_page.original_yield

(***************************************************************************)
(* C19 (CurveQuerySpec).  A run whose forward-rate range has               *)
(* end_year <= start_year reports a failure.                               *)
(***************************************************************************)
C19_EmptyRangeRejected ==
    (QueriesShown(curve_page) /\ Le(end_year, start_year)) =>
        curve_page.raised # "none"

(***************************************************************************)
(* C20 (CurveSpec).  The slope shown is y(10) - y(2) in basis points, and  *)
(* the shape shown is INVERTED for a negative slope, FLAT for a slope from *)
(* 0 to less than 50 basis points and NORMAL from 50 basis points on.      *)
(***************************************************************************)
C20_SlopeAndShape ==
    QueriesShown(curve_page) =>
        /\ curve_page.slope = SlopeBps
        /\ curve_page.shape =
              IF Lt(SlopeBps, Zero) THEN "INVERTED"
              ELSE IF Lt(SlopeBps, FromInt(50)) THEN "FLAT"
              ELSE "NORMAL"

(***************************************************************************)
(* C21 (CurveSpec).  For a curve that does not reach from 2 years or less  *)
(* to 10 years or more the run shows no slope, curvature or shape, and it  *)
(* does not stop on the unbound name slope.                                *)
(***************************************************************************)
C21_NoUseOfUndefinedSlope ==
    (Curve.maturities # <<>> /\ Curve.yields # <<>> /\ ~covers_2_to_10(Curve.maturities)) =>
        /\ curve_page.slope = NotComputed
        /\ curve_page.curvature = NotComputed
        /\ curve_page.shape = ""
        /\ curve_page.raised # "NameError"

\* the button block of the last Risk Metrics run is on the page
MeasuresShown == risk_measures.kind = "shown"

\* the z-score the specification gives for a confidence level
SpecZ(c) ==
    CASE c = FromInt(90) -> Rat(1282, 1000)
      [] c = FromInt(95) -> Rat(1645, 1000)
      [] c = FromInt(99) -> Rat(2326, 1000)
      [] c = Rat(995, 10) -> Rat(2576, 1000)
      [] c = Rat(999, 10) -> Rat(3090, 1000)

\* v is the rational q times the square root of the integer h
IsTimesRoot(v, q, h) ==
    /\ v.rat = Zero
    /\ \E s \in 1..h : s * s * v.radicand = h /\ v.root = Mul(q, FromInt(s))

\* C22: the VaR shown is z(c) * price_volatility * sqrt(h), where
\* price_volatility = dollar_duration * sigma / 10000 and z is the table
\* 90 -> 1.282, 95 -> 1.645, 99 -> 2.326, 99.5 -> 2.576, 99.9 -> 3.090; a dollar
\* duration of 700 with sigma = 5 gives a price volatility of 0.35.
C22_ParametricVaR ==
    /\ price_volatility(FromInt(700), FromInt(5)) = Rat(35, 100)
    /\ MeasuresShown =>
           LET pv == Div(Mul(dollar_duration, yield_vol), FromInt(10000))
           IN  /\ risk_measures.price_volatility = pv
               /\ risk_measures.z_score = SpecZ(confidence_level)
               /\ IsTimesRoot(risk_measures.var, Mul(SpecZ(confidence_level), pv),
                              horizon_days)

C22_Witness ==
    /\ MeasuresShown
    /\ confidence_level = Rat(995, 10)
    /\ horizon_days = 10
    /\ yield_vol = FromInt(100)
    /\ IsFinite(dollar_duration) /\ dollar_duration # Zero
    /\ risk_measures.var.root = Mul(Mul(Rat(2576, 1000), dollar_duration), Rat(1, 100))

\* -dollar_duration * dy + 0.5 * dollar_convexity * dy^2
SpecDelta(dd, dc, dy) == Add(Mul(Neg(dd), dy), Mul(Mul(Rat(1, 2), dc), Mul(dy, dy)))

\* a number of basis points as a decimal
Bps(shock_bps) == Rat(shock_bps, 10000)

\* the shock of the scenario selected, in basis points
SelectedShock ==
    IF selected_scenario = "Custom Shock" THEN custom_shock
    ELSE scenario_shocks[selected_scenario]

C25_SameTermsSameResults ==
    Called => \A other_year \in TodayYears : results = Metrics(args, other_year)

\* the record add_bond created for the terms of bond b
AsSubmitted(b) ==
    new_bond(b.name, b.purchase_price, b.face_value, b.coupon_rate, b.coupon_freq,
             b.maturity_date)

\* C26: computing the comparison metrics leaves the caller's bond records as they
\* were: every record of the list holds the values it held when it was added.
C26_InputsNotMutated ==
    \A i \in DOMAIN bond_data : bond_data[i] = AsSubmitted(bond_data[i])

\* C27: a Callable bond of positive face value and call price whose call period
\* index is smaller than the period count (0 and the negative indices of a call
\* date in an earlier year included) gets a schedule that pays the regular coupon
\* in exactly call_period entries, then the call price in one entry, then nothing,
\* and that is not all zero.
C27_CallPriceInOneEntry ==
    (/\ Called /\ args.bond_type = "Callable Bond"
     /\ args.face_value > 0 /\ args.kwargs.call_price > 0
     /\ FloorPeriods(args) >= 1 /\ CallPeriod(args) < FloorPeriods(args)) =>
        /\ Returned
        /\ LET cf == results.CashFlows
               call_amount == Rat(args.kwargs.call_price * args.face_value, 100)
           IN  /\ \E i \in 1..Len(cf) : cf[i] # Zero
               /\ \E k \in 1..Len(cf) :
                    /\ cf[k] = call_amount
                    /\ k - 1 = CallPeriod(args)
                    /\ \A i \in 1..(k - 1) : cf[i] = CouponAmount(args)
                    /\ \A i \in (k + 1)..Len(cf) : cf[i] = Zero

\* C28: a scenario impact is shown only for a stored dollar duration that is a
\* number other than 0, and then the stored price it divides by is not 0; while
\* the stored dollar duration is 0 the section shows the warning and no value.
C28_ImpactOnlyFromSnapshot ==
    /\ stress.kind = "impact" =>
           /\ IsFinite(dollar_duration) /\ dollar_duration # Zero
           /\ price # Zero
    /\ (dollar_duration = Zero /\ stress # NotRendered) => stress.kind = "warning"

StoredSnapshot == <<dollar_duration, dollar_convexity, price>>

\* price * modified duration, price * convexity and price of every bond the page
\* can price (the page prices vanilla bonds, which do not read the calendar)
PageSnapshots ==
    {<<Mul(m.Price, m.ModifiedDuration), Mul(m.Price, m.Convexity), m.Price>> :
        m \in {r \in {Metrics(a, 0) : a \in RiskPageArgs} : r.raised = "none"}}

\* the three fields are those of one calculate action on some bond of the page
FromOneCalculate == StoredSnapshot \in PageSnapshots

\* C29: the stored dollar duration, dollar convexity and price are all 0 or are
\* price * modified duration, price * convexity and price of one and the same
\* bond; a step that changes any of them stores all three from the bond priced in
\* that step.
C29_SnapshotBelongsTogether ==
    /\ [](StoredSnapshot = <<Zero, Zero, Zero>> \/ FromOneCalculate)
    /\ [][StoredSnapshot' # StoredSnapshot =>
             /\ results'.raised = "none"
             /\ dollar_duration' = Mul(results'.Price, results'.ModifiedDuration)
             /\ dollar_convexity' = Mul(results'.Price, results'.Convexity)
             /\ price' = results'.Price]_vars

\* a snapshot of a priced bond is kept while the bond entered has changed
C29_Witness ==
    /\ IsFinite(dollar_duration) /\ dollar_duration # Zero
    /\ dollar_convexity # dollar_duration
    /\ StoredSnapshot # SnapshotOf(args)

\* what the form submitted for the bond b
SubmittedTerms(b) ==
    <<b.name, b.purchase_price, b.face_value, b.coupon_rate, b.coupon_freq,
      b.maturity_date>>

\* the submitted terms of the records of a list, in the order of the list
TermsOf(bonds) == [i \in DOMAIN bonds |-> SubmittedTerms(bonds[i])]

\* C30: every step of the Bond Comparison tool appends one record with a
\* non-empty name after the records already listed, or empties the list and turns
\* advanced mode off, or flips advanced mode and leaves the list, or changes
\* neither; no step changes the submitted terms of a listed record, and no record
\* with an empty name is ever listed.
C30_BondListSteps ==
    /\ [](\A i \in DOMAIN bond_data : bond_data[i].name # "")
    /\ [][\/ /\ Len(bond_data') = Len(bond_data) + 1
              /\ SubSeq(TermsOf(bond_data'), 1, Len(bond_data)) = TermsOf(bond_data)
              /\ bond_data'[Len(bond_data')].name # ""
              /\ advanced_mode' = advanced_mode
           \/ /\ bond_data' = <<>>
              /\ advanced_mode' = FALSE
           \/ /\ TermsOf(bond_data') = TermsOf(bond_data)
              /\ advanced_mode' = ~advanced_mode
           \/ /\ TermsOf(bond_data') = TermsOf(bond_data)
              /\ advanced_mode' = advanced_mode]_vars

\* two different bonds are listed in advanced mode
C30_Witness ==
    /\ Len(bond_data) = 2
    /\ SubmittedTerms(bond_data[1]) # SubmittedTerms(bond_data[2])
    /\ advanced_mode
====
